---- MODULE Spec2Model ----
(***************************************************************************)
(* Barcode API (app.py): code validation, file-name sanitising, unique     *)
(* artifact naming, batch parsing and the request handlers.                *)
(*                                                                         *)
(* A Python str is a sequence of characters; a character is a one-token    *)
(* TLA+ string.  "U+0663" stands for the single character ARABIC-INDIC     *)
(* DIGIT THREE and "U+00DF" for LATIN SMALL LETTER SHARP S.                *)
(***************************************************************************)
EXTENDS Integers, Sequences, FiniteSets, TLC

VARIABLES files, log, req, resp, nreq, pc, local

vars == <<files, log, req, resp, nreq, pc, local>>

(***************************************************************************)
(* Characters                                                              *)
(***************************************************************************)
LowerSeq == <<"a", "b", "c", "d", "e", "g", "i", "n", "o", "p", "x">>
UpperSeq == <<"A", "B", "C", "D", "E", "G", "I", "N", "O", "P", "X">>
AsciiLower == {LowerSeq[k] : k \in DOMAIN LowerSeq}
AsciiUpper == {UpperSeq[k] : k \in DOMAIN UpperSeq} \cup {"S"}
AsciiDigit == {"0", "1", "2", "3", "4", "5", "6", "7", "8", "9"}
\* str.strip() with no argument removes these
Whitespace == {" ", "\t", "\n", "\r"}
\* Unicode decimal digits (category Nd) outside ASCII
UnicodeDigit == {"U+0663"}

\* str.upper(), one character at a time; the sharp s upper-cases to "SS"
UpperChar(c) ==
  IF c \in AsciiLower
  THEN <<UpperSeq[CHOOSE k \in DOMAIN LowerSeq : LowerSeq[k] = c]>>
  ELSE IF c = "U+00DF" THEN <<"S", "S">> ELSE <<c>>

RECURSIVE upper(_)
upper(s) == IF s = <<>> THEN <<>> ELSE UpperChar(Head(s)) \o upper(Tail(s))

RECURSIVE lstrip(_, _)
lstrip(s, chars) ==
  IF s # <<>> /\ Head(s) \in chars THEN lstrip(Tail(s), chars) ELSE s

RECURSIVE rstrip(_, _)
rstrip(s, chars) ==
  IF s # <<>> /\ s[Len(s)] \in chars
  THEN rstrip(SubSeq(s, 1, Len(s) - 1), chars)
  ELSE s

strip(s, chars) == rstrip(lstrip(s, chars), chars)

\* the largest j >= i - 1 such that s[i..j] lies in class
RECURSIVE RunEnd(_, _, _)
RunEnd(s, i, class) ==
  IF i <= Len(s) /\ s[i] \in class THEN RunEnd(s, i + 1, class) ELSE i - 1

(***************************************************************************)
(* CODE_PATTERN = re.compile(r'^(I|C)-[A-Z]+-\d+/\d{2}$')                  *)
(***************************************************************************)
\* [A-Z]
ClassAZ == AsciiUpper
\* \d of a str pattern: every Unicode decimal digit
ClassDigit == AsciiDigit \cup UnicodeDigit

At(s, i, class) == i <= Len(s) /\ s[i] \in class

\* '$' without re.MULTILINE: at the end, or just before a final newline
AtDollar(s, i) == i = Len(s) + 1 \/ (i = Len(s) /\ s[i] = "\n")

\* the pattern without its closing '$'
CODE_PATTERN_match_no_dollar(s) ==
  /\ At(s, 1, {"I", "C"})
  /\ At(s, 2, {"-"})
  /\ LET a == RunEnd(s, 3, ClassAZ) IN
       /\ a >= 3
       /\ At(s, a + 1, {"-"})
       /\ LET d == RunEnd(s, a + 2, ClassDigit) IN
            /\ d >= a + 2
            /\ At(s, d + 1, {"/"})
            /\ At(s, d + 2, ClassDigit)
            /\ At(s, d + 3, ClassDigit)

\* CODE_PATTERN.match(s): the scan of the pattern from position 1
CODE_PATTERN_match(s) ==
  /\ At(s, 1, {"I", "C"})
  /\ At(s, 2, {"-"})
  /\ LET a == RunEnd(s, 3, ClassAZ) IN
       /\ a >= 3
       /\ At(s, a + 1, {"-"})
       /\ LET d == RunEnd(s, a + 2, ClassDigit) IN
            /\ d >= a + 2
            /\ At(s, d + 1, {"/"})
            /\ At(s, d + 2, ClassDigit)
            /\ At(s, d + 3, ClassDigit)
            /\ AtDollar(s, d + 4)

\* cc = (c or "").upper().strip()
Normalize(c) == strip(upper(c), Whitespace)

Ok(v) == [ok |-> TRUE, value |-> v]
HTTPException(status, kind, text) ==
  [ok |-> FALSE, status |-> status, kind |-> kind, text |-> text]

_validate_code(c) ==
  LET cc == Normalize(c) IN
    IF ~CODE_PATTERN_match(cc)
    THEN HTTPException(400, "Invalid code", cc)
    ELSE Ok(cc)

(***************************************************************************)
(* sanitize: re.sub(r'[^A-Za-z0-9._-]+', '_', name).strip('_') or "code"   *)
(***************************************************************************)
SanitizeKeep ==
  ClassAZ \cup AsciiLower \cup AsciiDigit \cup {".", "_", "-"}

Chars(s) == {s[k] : k \in 1..Len(s)}

\* re.sub: every maximal run of characters outside keep becomes one "_"
RECURSIVE SubRuns(_, _, _)
SubRuns(s, i, keep) ==
  IF i > Len(s) THEN <<>>
  ELSE IF s[i] \in keep
       THEN <<s[i]>> \o SubRuns(s, i + 1, keep)
       ELSE <<"_">> \o SubRuns(s, RunEnd(s, i, Chars(s) \ keep) + 1, keep)

\* the character class written without 0-9
sanitize_no_digits(name) ==
  LET s == strip(SubRuns(name, 1, SanitizeKeep \ AsciiDigit), {"_"}) IN
    IF s = <<>> THEN <<"c", "o", "d", "e">> ELSE s

sanitize(name) ==
  LET s == strip(SubRuns(name, 1, SanitizeKeep), {"_"}) IN
    IF s = <<>> THEN <<"c", "o", "d", "e">> ELSE s

(***************************************************************************)
(* unique_path.  A directory is the set of the file names that exist.      *)
(***************************************************************************)
DigitChar(d) == <<"0", "1", "2", "3", "4", "5", "6", "7", "8", "9">>[d + 1]

\* str(i) of the f-string
RECURSIVE Dec(_)
Dec(i) == IF i < 10 THEN <<DigitChar(i)>> ELSE Dec(i \div 10) \o <<DigitChar(i % 10)>>

\* f"{base_name}{ext}" and f"{base_name}-{i}{ext}"
Plain(base_name, ext) == base_name \o ext
Alt(base_name, i, ext) == base_name \o <<"-">> \o Dec(i) \o ext

RECURSIVE Probe(_, _, _, _)
Probe(dirpath, base_name, ext, i) ==
  IF Alt(base_name, i, ext) \notin dirpath
  THEN Alt(base_name, i, ext)
  ELSE Probe(dirpath, base_name, ext, i + 1)

\* the loop counter started at 0
unique_path_from_0(dirpath, base_name, ext) ==
  IF Plain(base_name, ext) \notin dirpath
  THEN Plain(base_name, ext)
  ELSE Probe(dirpath, base_name, ext, 0)

\* no existence check at all
unique_path_unchecked(dirpath, base_name, ext) == Plain(base_name, ext)

unique_path(dirpath, base_name, ext) ==
  IF Plain(base_name, ext) \notin dirpath
  THEN Plain(base_name, ext)
  ELSE Probe(dirpath, base_name, ext, 1)

PNG == <<".", "p", "n", "g">>

(***************************************************************************)
(* The Code 128 renderer (python-barcode).  Code 128 encodes ASCII only:   *)
(* the constructor raises IllegalCharacterError on any other character.    *)
(***************************************************************************)
Code128Charset ==
  ClassAZ \cup AsciiLower \cup AsciiDigit \cup Whitespace
    \cup {"-", "/", ",", "_", ".", "#"}

RendererAccepts(data) == Chars(data) \subseteq Code128Charset

\* bc.render(): the image of the code (its pixels are not modelled)
render(data) == [image_of |-> data]

(***************************************************************************)
(* _parse_codes.  An Optional value is <<>> (None) or <<v>>.               *)
(***************************************************************************)
None == <<>>
Some(v) == <<v>>

BlobSeparators == {",", "\r", "\n"}

\* re.split(r'[,\r\n]+', s): the pieces between maximal runs of separators,
\* the empty pieces at either end included
RECURSIVE SplitFrom(_, _, _)
SplitFrom(s, i, cur) ==
  IF i > Len(s) THEN <<cur>>
  ELSE IF s[i] \in BlobSeparators
       THEN <<cur>> \o SplitFrom(s, RunEnd(s, i, BlobSeparators) + 1, <<>>)
       ELSE SplitFrom(s, i + 1, Append(cur, s[i]))

re_split(s) == SplitFrom(s, 1, <<>>)

Contains(seq, v) == \E k \in 1..Len(seq) : seq[k] = v

\* ', '.join(items)
RECURSIVE Join(_)
Join(items) ==
  IF items = <<>> THEN <<>>
  ELSE IF Len(items) = 1 THEN items[1]
       ELSE items[1] \o <<",", " ">> \o Join(Tail(items))

\* out.extend(code_params); out.extend(p for p in parts if p and p.strip())
Collect(code_params, codes_blob) ==
  LET fromParams ==
        IF code_params # None /\ code_params[1] # <<>> THEN code_params[1] ELSE <<>>
      keep(piece) == piece # <<>> /\ strip(piece, Whitespace) # <<>>
      fromBlob ==
        IF codes_blob # None /\ codes_blob[1] # <<>>
        THEN SelectSeq(re_split(codes_blob[1]), keep)
        ELSE <<>>
  IN fromParams \o fromBlob

\* the loop without the `if cc not in norm` test
RECURSIVE Scan_keep_all(_, _, _, _)
Scan_keep_all(out, i, norm, bad) ==
  IF i > Len(out) THEN [norm |-> norm, bad |-> bad]
  ELSE LET cc == Normalize(out[i]) IN
    IF cc = <<>> THEN Scan_keep_all(out, i + 1, norm, bad)
    ELSE IF ~CODE_PATTERN_match(cc) THEN Scan_keep_all(out, i + 1, norm, Append(bad, cc))
    ELSE Scan_keep_all(out, i + 1, Append(norm, cc), bad)

\* the validate & normalize loop: <<norm, bad>> after the candidates from i on
RECURSIVE Scan(_, _, _, _)
Scan(out, i, norm, bad) ==
  IF i > Len(out) THEN [norm |-> norm, bad |-> bad]
  ELSE LET cc == Normalize(out[i]) IN
    IF cc = <<>> THEN Scan(out, i + 1, norm, bad)
    ELSE IF ~CODE_PATTERN_match(cc) THEN Scan(out, i + 1, norm, Append(bad, cc))
    ELSE IF ~Contains(norm, cc) THEN Scan(out, i + 1, Append(norm, cc), bad)
    ELSE Scan(out, i + 1, norm, bad)

\* the valid codes returned whenever there are any
_parse_codes_partial(code_params, codes_blob) ==
  LET out == Collect(code_params, codes_blob) IN
    IF out = <<>> THEN HTTPException(400, "No codes provided", <<>>)
    ELSE LET r == Scan(out, 1, <<>>, <<>>) IN
      IF r.norm # <<>> THEN Ok(r.norm)
      ELSE IF r.bad # <<>> THEN HTTPException(400, "Invalid codes", Join(r.bad))
           ELSE HTTPException(400, "No valid codes after validation", <<>>)

\* the emptiness test moved after the loop
_parse_codes_late_empty(code_params, codes_blob) ==
  LET out == Collect(code_params, codes_blob)
      r == Scan(out, 1, <<>>, <<>>)
  IN IF r.bad # <<>> THEN HTTPException(400, "Invalid codes", Join(r.bad))
     ELSE IF r.norm = <<>> THEN HTTPException(400, "No codes provided", <<>>)
          ELSE Ok(r.norm)

_parse_codes(code_params, codes_blob) ==
  LET out == Collect(code_params, codes_blob) IN
    IF out = <<>> THEN HTTPException(400, "No codes provided", <<>>)
    ELSE LET r == Scan(out, 1, <<>>, <<>>) IN
      IF r.bad # <<>> THEN HTTPException(400, "Invalid codes", Join(r.bad))
      ELSE IF r.norm = <<>>
           THEN HTTPException(400, "No valid codes after validation", <<>>)
           ELSE Ok(r.norm)

(***************************************************************************)
(* Storage and _make_barcode_bytes                                         *)
(***************************************************************************)
\* exclusive creation (mode 'x'), the error swallowed
save_exclusive(fs, path, content) ==
  [n \in DOMAIN fs \cup {path} |-> IF n \in DOMAIN fs THEN fs[n] ELSE content]

\* the image never written
save_nothing(fs, path, content) == fs

\* pil_img.save(save_path): creates the file, or truncates and rewrites it
save(fs, path, content) ==
  [n \in DOMAIN fs \cup {path} |-> IF n = path THEN content ELSE fs[n]]

NoFiles == [n \in {} |-> <<>>]

\* what FastAPI answers when a handler lets a non-HTTP exception escape
InternalServerError ==
  [ok |-> FALSE, status |-> 500, kind |-> "Internal Server Error", text |-> <<>>]

\* the whole of _make_barcode_bytes, run without interruption by request `by`:
\* the outcome, the directory after it and the line it printed (if any)
_make_barcode_bytes(fs, data, by) ==
  LET v == _validate_code(data) IN
    IF ~v.ok THEN [out |-> v, files |-> fs, saved |-> <<>>]
    ELSE IF ~RendererAccepts(v.value)
         THEN [out |-> InternalServerError, files |-> fs, saved |-> <<>>]
         ELSE LET fname_base == sanitize(v.value)
                  save_path == unique_path(DOMAIN fs, fname_base, PNG)
                  content == [png |-> render(v.value), by |-> by]
              IN [out |-> Ok([bytes |-> render(v.value), fname |-> save_path]),
                  files |-> save(fs, save_path, content),
                  saved |-> <<[name |-> save_path, code |-> v.value, by |-> by]>>]

\* the HTTP response of a handler outcome
ErrorResponse(e) == [status |-> e.status, kind |-> e.kind, body |-> e.text]
Response(kind, body) == [status |-> 200, kind |-> kind, body |-> body]

ImageRoutes == {"/barcode/preview", "/barcode/download"}
BatchRoutes == {"/print-batch", "/print-grid"}

NoRequest == [route |-> "none", data |-> <<>>, code |-> None, codes |-> None]
NoResponse == [status |-> 0, kind |-> "none", body |-> <<>>]

(***************************************************************************)
(* Bounds and inputs                                                       *)
(***************************************************************************)
\* calls of _make_barcode_bytes in one run of the sequential server
MaxReq == 4
\* calls of _make_barcode_bytes in one run of the concurrent server
MaxConcReq == 3
\* request threads of the concurrent server
NumWorkers == 2
\* largest suffix index present in a directory given to unique_path
MaxIdx == 2
\* suffix indices 1..DenseCount all present in the crowded directory
DenseCount == 10
\* repeated ?code= values in one batch request
MaxParams == 2
\* pieces of the ?codes= blob in one batch request
MaxPieces == 2

Workers == 1..NumWorkers

\* the concatenation of a sequence of strings
RECURSIVE Cat(_)
Cat(parts) == IF parts = <<>> THEN <<>> ELSE Head(parts) \o Cat(Tail(parts))

\* raw ?data= values: lead, prefix, series, number, separator, year, trail
Leads == {<<>>, <<" ">>, <<"#">>}
Prefixes == {<<"I">>, <<"c">>, <<"A">>}
SeriesParts == {<<>>, <<"A">>, <<"a", "B">>, <<"1">>, <<"U+00DF">>}
NumberParts == {<<>>, <<"1">>, <<"1", "2">>, <<"1", "U+0663">>}
SlashParts == {<<"/">>, <<"_">>}
YearParts == {<<"2">>, <<"2", "5">>, <<"U+0663", "5">>, <<"2", "5", "5">>}
Trails == {<<>>, <<"\n">>, <<" ", "\t">>, <<"5">>}

DataInputs ==
  {Cat(<<l, p, <<"-">>, s, <<"-">>, n, sl, y, t>>) :
     l \in Leads, p \in Prefixes, s \in SeriesParts, n \in NumberParts,
     sl \in SlashParts, y \in YearParts, t \in Trails}

IA125 == <<"I", "-", "A", "-", "1", "/", "2", "5">>
IA1225 == <<"I", "-", "A", "-", "1", "2", "/", "2", "5">>
CB225 == <<"C", "-", "B", "-", "2", "/", "2", "5">>

\* raw ?data= values of the server runs
ServerInputs ==
  { IA125,
    <<" ", "i", "-", "a", "-", "1", "/", "2", "5", "\n">>,
    IA1225,
    CB225,
    <<"I", "-", "A", "-", "1", "U+0663", "/", "2", "5">>,
    <<"I", "-", "A", "-", "1", "_", "2", "5">>,
    <<"I", "-", "A", "-", "1", "/", "2", "5", "-", "1">> }

ConcInputs == {IA125, <<"i", "-", "a", "-", "1", "/", "2", "5">>, <<"b", "a", "d">>}

\* sequences over S of length 1..n
SeqsUpTo(S, n) == UNION {[1..k -> S] : k \in 1..n}

\* repeated ?code= values
ParamValues ==
  { <<" ", "i", "-", "a", "-", "1", "/", "2", "5">>, <<"b", "a", "d">>, <<" ">> }
ParamInputs == {None} \cup {Some(l) : l \in SeqsUpTo(ParamValues, MaxParams)}

\* the ?codes= blob: pieces joined by runs of separators
PieceValues ==
  { IA125, <<"c", "-", "b", "-", "2", "/", "2", "5", " ">>, <<"x">>, <<" ">>, <<>> }
SeparatorRuns == {<<",">>, <<"\r", "\n">>}

RECURSIVE Blobs(_)
Blobs(n) ==
  IF n = 1 THEN PieceValues
  ELSE {b \o s \o p : b \in Blobs(n - 1), s \in SeparatorRuns, p \in PieceValues}

BlobInputs == {None} \cup {Some(b) : b \in UNION {Blobs(k) : k \in 1..MaxPieces}}

\* directories given to unique_path
NamerBases == {<<"x">>, <<"x", "-", "1">>}
NamerExts == {PNG, <<>>}
NamerNames ==
  {Plain(b, PNG) : b \in NamerBases}
    \cup {Alt(b, i, PNG) : b \in NamerBases, i \in 1..MaxIdx}
Crowded == {Plain(<<"x">>, PNG)} \cup {Alt(<<"x">>, i, PNG) : i \in 1..DenseCount}
NamerDirs == (SUBSET NamerNames) \cup {Crowded}

(***************************************************************************)
(* State.  files: the artifact directory, file name -> content.  log: the  *)
(* "Saved barcode -> ..." lines printed so far.  req, resp: the request    *)
(* being handled and its response.  nreq: _make_barcode_bytes calls        *)
(* started.  pc, local: the position and locals of each request thread of  *)
(* the concurrent server.                                                  *)
(***************************************************************************)
NoLocal ==
  [route |-> "none", data |-> <<>>, id |-> 0, fname_base |-> <<>>, i |-> 0,
   save_path |-> <<>>, resp |-> NoResponse]

Init ==
  /\ files = NoFiles
  /\ log = <<>>
  /\ req = NoRequest
  /\ resp = NoResponse
  /\ nreq = 0
  /\ pc = [w \in Workers |-> "idle"]
  /\ local = [w \in Workers |-> NoLocal]

ImageResponse(disposition, made) ==
  IF made.ok
  THEN Response("image/png",
                [disposition |-> disposition, fname |-> made.value.fname,
                 content |-> made.value.bytes])
  ELSE ErrorResponse(made)

\* a /barcode/... handler run without interruption, on any input of D
ServeImage(route, disposition, D) ==
  /\ resp = NoResponse
  /\ nreq < MaxReq
  /\ \E data \in D :
       /\ LET r == _make_barcode_bytes(files, data, nreq + 1) IN
            /\ files' = r.files
            /\ log' = log \o r.saved
            /\ resp' = ImageResponse(disposition, r.out)
       /\ req' = [route |-> route, data |-> data, code |-> None, codes |-> None]
  /\ nreq' = nreq + 1
  /\ UNCHANGED <<pc, local>>

barcode_preview(D) == ServeImage("/barcode/preview", "inline", D)

barcode_download(D) == ServeImage("/barcode/download", "attachment", D)

\* the page: its title and the <img> it embeds (src /barcode/preview?data=code)
print_page(D) ==
  /\ resp = NoResponse
  /\ \E data \in D :
       /\ LET v == _validate_code(data) IN
            resp' = IF v.ok
                    THEN Response("text/html", [layout |-> "single", codes |-> <<v.value>>])
                    ELSE ErrorResponse(v)
       /\ req' = [route |-> "/print", data |-> data, code |-> None, codes |-> None]
  /\ UNCHANGED <<files, log, nreq, pc, local>>

PrintMany(route, layout) ==
  /\ resp = NoResponse
  /\ \E code \in ParamInputs, codes \in BlobInputs :
       /\ LET codes_list == _parse_codes(code, codes) IN
            resp' = IF codes_list.ok
                    THEN Response("text/html",
                                  [layout |-> layout, codes |-> codes_list.value])
                    ELSE ErrorResponse(codes_list)
       /\ req' = [route |-> route, data |-> <<>>, code |-> code, codes |-> codes]
  /\ UNCHANGED <<files, log, nreq, pc, local>>

print_batch == PrintMany("/print-batch", "one per page")

print_grid == PrintMany("/print-grid", "grid")

\* the response is sent; nothing of the request outlives it but the directory
Reply ==
  /\ resp # NoResponse
  /\ req' = NoRequest
  /\ resp' = NoResponse
  /\ UNCHANGED <<files, log, nreq, pc, local>>

\* the sequential server: one request at a time
Next ==
  \/ barcode_preview(ServerInputs)
  \/ barcode_download(ServerInputs)
  \/ print_page(ServerInputs)
  \/ Reply

Spec == Init /\ [][Next]_vars

\* /print over every raw input
NextPrint == print_page(DataInputs) \/ Reply

SpecPrint == Init /\ [][NextPrint]_vars

\* the batch routes over every pair of sources
NextBatch == print_batch \/ print_grid \/ Reply

SpecBatch == Init /\ [][NextBatch]_vars

(***************************************************************************)
(* unique_path on an arbitrary directory                                   *)
(***************************************************************************)
External == [png |-> render(<<>>), by |-> 0]

InitNamer ==
  /\ files \in {[n \in d |-> External] : d \in NamerDirs}
  /\ log = <<>>
  /\ req = NoRequest
  /\ resp = NoResponse
  /\ nreq = 0
  /\ pc = [w \in Workers |-> "idle"]
  /\ local = [w \in Workers |-> NoLocal]

\* one call; resp holds the arguments and the path returned
CallUniquePath(base_name, ext) ==
  /\ resp = NoResponse
  /\ resp' = [status |-> 0, kind |-> "unique_path",
              body |-> [base_name |-> base_name, ext |-> ext,
                        path |-> unique_path(DOMAIN files, base_name, ext)]]
  /\ UNCHANGED <<files, log, req, nreq, pc, local>>

NextNamer == \E b \in NamerBases, e \in NamerExts : CallUniquePath(b, e)

SpecNamer == InitNamer /\ [][NextNamer]_vars

(***************************************************************************)
(* The concurrent server: FastAPI runs each `def` handler on a pool        *)
(* thread, so the steps of _make_barcode_bytes of two requests interleave. *)
(***************************************************************************)
\* lines 45-50: validate, construct and render, sanitize
Begin(w) ==
  /\ pc[w] = "idle"
  /\ nreq < MaxConcReq
  /\ nreq' = nreq + 1
  /\ \E route \in ImageRoutes, data \in ConcInputs :
       LET v == _validate_code(data) IN
         IF ~v.ok \/ ~RendererAccepts(v.value)
         THEN /\ local' = [local EXCEPT ![w] =
                   [NoLocal EXCEPT !.route = route, !.data = data, !.id = nreq + 1,
                      !.resp = ErrorResponse(IF v.ok THEN InternalServerError ELSE v)]]
              /\ UNCHANGED pc
         ELSE /\ local' = [local EXCEPT ![w] =
                   [NoLocal EXCEPT !.route = route, !.data = v.value, !.id = nreq + 1,
                      !.fname_base = sanitize(v.value)]]
              /\ pc' = [pc EXCEPT ![w] = "unique_path"]
  /\ UNCHANGED <<files, log, req, resp>>

\* lines 28-30: p.exists()
CheckPlain(w) ==
  /\ pc[w] = "unique_path"
  /\ LET p == Plain(local[w].fname_base, PNG) IN
       IF p \notin DOMAIN files
       THEN /\ local' = [local EXCEPT ![w].save_path = p]
            /\ pc' = [pc EXCEPT ![w] = "save"]
       ELSE /\ local' = [local EXCEPT ![w].i = 1]
            /\ pc' = [pc EXCEPT ![w] = "probe"]
  /\ UNCHANGED <<files, log, req, resp, nreq>>

\* lines 32-36: one turn of the while loop
ProbeStep(w) ==
  /\ pc[w] = "probe"
  /\ LET alt == Alt(local[w].fname_base, local[w].i, PNG) IN
       IF alt \notin DOMAIN files
       THEN /\ local' = [local EXCEPT ![w].save_path = alt]
            /\ pc' = [pc EXCEPT ![w] = "save"]
       ELSE /\ local' = [local EXCEPT ![w].i = @ + 1]
            /\ UNCHANGED pc
  /\ UNCHANGED <<files, log, req, resp, nreq>>

\* lines 52-53: pil_img.save(save_path); print
Save(w) ==
  /\ pc[w] = "save"
  /\ files' = save(files, local[w].save_path,
                   [png |-> render(local[w].data), by |-> local[w].id])
  /\ log' = Append(log, [name |-> local[w].save_path, code |-> local[w].data,
                          by |-> local[w].id])
  /\ pc' = [pc EXCEPT ![w] = "return"]
  /\ UNCHANGED <<req, resp, nreq, local>>

\* lines 55-57 and the handler's StreamingResponse
Return(w) ==
  /\ pc[w] = "return"
  /\ local' = [local EXCEPT ![w].resp =
        ImageResponse(IF local[w].route = "/barcode/preview" THEN "inline" ELSE "attachment",
                      Ok([bytes |-> render(local[w].data), fname |-> local[w].save_path]))]
  /\ pc' = [pc EXCEPT ![w] = "idle"]
  /\ UNCHANGED <<files, log, req, resp, nreq>>

NextConc ==
  \E w \in Workers :
    \/ Begin(w)
    \/ CheckPlain(w)
    \/ ProbeStep(w)
    \/ Save(w)
    \/ Return(w)

SpecConc == Init /\ [][NextConc]_vars

(***************************************************************************)
(* Properties                                                              *)
(***************************************************************************)
\* the grammar (I|C)-[A-Z]+-<digits>/<two digits> over the whole of s
InGrammar(s) ==
  \E m \in 1..Len(s), n \in 1..Len(s) :
    /\ Len(s) = m + n + 6
    /\ s[1] \in {"I", "C"}
    /\ s[2] = "-"
    /\ \A k \in 3..(m + 2) : s[k] \in AsciiUpper
    /\ s[m + 3] = "-"
    /\ \A k \in (m + 4)..(m + n + 3) : s[k] \in ClassDigit
    /\ s[m + n + 4] = "/"
    /\ s[m + n + 5] \in ClassDigit
    /\ s[m + n + 6] \in ClassDigit

\* C1: /print (that is, _validate_code) succeeds exactly when the trimmed,
\* upper-cased input is in the grammar over its whole length; it then returns
\* that normalized string, and otherwise fails with 400 "Invalid code" carrying
\* the normalized string.
C1_ValidateIffGrammar ==
  req.route = "/print" =>
    LET n == Normalize(req.data) IN
      IF InGrammar(n)
      THEN resp.status = 200 /\ resp.body.codes = <<n>>
      ELSE resp.status = 400 /\ resp.kind = "Invalid code" /\ resp.body = n

\* an input that needed both trimming and upper-casing was accepted
C1_Witness ==
  /\ req.route = "/print"
  /\ resp.status = 200
  /\ Len(req.data) > Len(resp.body.codes[1])
  /\ upper(req.data) # req.data

\* C2: unique_path returns a path that is not in the directory, the first free
\* one of base+ext, base-1+ext, base-2+ext, ..., and creates no file.
C2_FirstFreeCandidate ==
  resp.kind = "unique_path" =>
    LET b == resp.body.base_name
        e == resp.body.ext
        path == resp.body.path
        dir == DOMAIN files
    IN /\ path \notin dir
       /\ \A f \in dir : files[f] = External
       /\ IF b \o e \notin dir
          THEN path = b \o e
          ELSE \E n \in 1..(Cardinality(dir) + 1) :
                 /\ path = b \o <<"-">> \o Dec(n) \o e
                 /\ \A k \in 1..(n - 1) : (b \o <<"-">> \o Dec(k) \o e) \in dir

\* with x.png and x-1.png present, base x got x-2.png
C2_Witness ==
  /\ resp.kind = "unique_path"
  /\ resp.body.base_name = <<"x">>
  /\ {<<"x", ".", "p", "n", "g">>, <<"x", "-", "1", ".", "p", "n", "g">>}
       \subseteq DOMAIN files
  /\ resp.body.path = <<"x", "-", "2", ".", "p", "n", "g">>

\* the number of saves of log[j]'s code among log[1..j]
NthOfCode(j) == Cardinality({i \in 1..j : log[i].code = log[j].code})

\* C3: with calls that do not overlap, from an empty directory, the k-th
\* successful call for a code is saved as sanitize(code).png (k = 1) or
\* sanitize(code)-(k-1).png; each makes exactly one new file, none is
\* overwritten, and the file is there when its name is returned.
C3_KthCallName ==
  /\ Cardinality(DOMAIN files) = Len(log)
  /\ \A j \in 1..Len(log) :
       LET k == NthOfCode(j)
           base == sanitize(log[j].code)
       IN /\ log[j].name =
               IF k = 1 THEN base \o PNG ELSE base \o <<"-">> \o Dec(k - 1) \o PNG
          /\ log[j].name \in DOMAIN files
          /\ files[log[j].name] = [png |-> render(log[j].code), by |-> log[j].by]
  /\ (req.route \in ImageRoutes /\ resp.status = 200) =>
       /\ Len(log) > 0
       /\ resp.body.fname = log[Len(log)].name
       /\ resp.body.fname \in DOMAIN files

\* the second preview of I-A-1/25 answered I-A-1_25-1.png
C3_Witness ==
  /\ req.route = "/barcode/preview"
  /\ resp.status = 200
  /\ resp.body.fname =
       <<"I", "-", "A", "-", "1", "_", "2", "5", "-", "1", ".", "p", "n", "g">>
  /\ <<"I", "-", "A", "-", "1", "_", "2", "5", ".", "p", "n", "g">> \in DOMAIN files

\* the last line of the log that names f
LastSave(f) ==
  log[CHOOSE i \in 1..Len(log) :
        /\ log[i].name = f
        /\ \A k \in (i + 1)..Len(log) : log[k].name # f]

\* C4: with concurrent requests nothing keeps two of them from saving under
\* one name: a save to an existing name replaces its content, so each file
\* holds what the last request to save there wrote, and the directory can hold
\* fewer files than there were saves.
C4_LastWriterWins ==
  /\ DOMAIN files = {log[i].name : i \in 1..Len(log)}
  /\ \A f \in DOMAIN files :
       files[f] = [png |-> render(LastSave(f).code), by |-> LastSave(f).by]

\* two requests answered with the same file name; two saves left one file,
\* holding the second save
C4_Witness ==
  /\ \E v, w \in Workers :
       /\ v # w
       /\ pc[v] = "idle" /\ pc[w] = "idle"
       /\ local[v].resp.status = 200 /\ local[w].resp.status = 200
       /\ local[v].resp.body.fname = local[w].resp.body.fname
  /\ Len(log) = 2
  /\ Cardinality(DOMAIN files) = 1
  /\ \A f \in DOMAIN files : files[f].by = log[2].by /\ log[1].by # log[2].by

(***************************************************************************)
(* The candidates of a batch request, each with its place in the input:    *)
(* the repeated values first, then the separator-free stretches of the     *)
(* blob.                                                                    *)
(***************************************************************************)
ParamsOf(r) == IF r.code = None THEN <<>> ELSE r.code[1]
BlobOf(r) == IF r.codes = None THEN <<>> ELSE r.codes[1]

PieceStarts(s) ==
  {a \in 1..Len(s) :
     s[a] \notin BlobSeparators /\ (a = 1 \/ s[a - 1] \in BlobSeparators)}

PieceAt(s, a) ==
  LET b == CHOOSE b \in a..Len(s) :
             /\ \A k \in a..b : s[k] \notin BlobSeparators
             /\ (b = Len(s) \/ s[b + 1] \in BlobSeparators)
  IN SubSeq(s, a, b)

Candidates(r) ==
  {[pos |-> k, raw |-> ParamsOf(r)[k]] : k \in 1..Len(ParamsOf(r))}
    \cup {[pos |-> Len(ParamsOf(r)) + a, raw |-> PieceAt(BlobOf(r), a)] :
            a \in PieceStarts(BlobOf(r))}

NonBlank(r) == {c \in Candidates(r) : ~(Chars(c.raw) \subseteq Whitespace)}

\* the first place in nb (a set of candidates) of normalized value v
FirstPos(nb, v) ==
  CHOOSE q \in {c.pos : c \in nb} :
    /\ \E c \in nb : c.pos = q /\ Normalize(c.raw) = v
    /\ \A c \in nb : Normalize(c.raw) = v => q <= c.pos

Offenders(r) == {c \in NonBlank(r) : ~InGrammar(Normalize(c.raw))}

\* the normalized values of a set of candidates, in the order of their places
RECURSIVE InOrder(_)
InOrder(cs) ==
  IF cs = {} THEN <<>>
  ELSE LET first == CHOOSE c \in cs : \A d \in cs : c.pos <= d.pos
       IN <<Normalize(first.raw)>> \o InOrder(cs \ {first})

\* C5: a successful batch parse returns a non-empty list of grammar-valid
\* normalized codes without duplicates: exactly the distinct normalized values
\* of the non-empty candidates, in the order of their first appearance
\* (repeated values, then blob pieces).
C5_DistinctInOrder ==
  (req.route \in BatchRoutes /\ resp.status = 200) =>
    LET r == resp.body.codes
        nb == NonBlank(req)
    IN /\ Len(r) >= 1
       /\ \A i \in 1..Len(r) : InGrammar(r[i])
       /\ {r[i] : i \in 1..Len(r)} = {Normalize(c.raw) : c \in nb}
       /\ \A i, j \in 1..Len(r) :
            i < j => r[i] # r[j] /\ FirstPos(nb, r[i]) < FirstPos(nb, r[j])

\* both sources given, a duplicate dropped, two codes returned
C5_Witness ==
  /\ req.route \in BatchRoutes
  /\ resp.status = 200
  /\ req.code # None /\ req.codes # None
  /\ Len(resp.body.codes) = 2
  /\ Cardinality(NonBlank(req)) > 2
  /\ \E c \in NonBlank(req) : c.raw # Normalize(c.raw)

\* C6: if a non-empty candidate fails the grammar, the batch parse fails with
\* 400 "Invalid codes" listing every offending normalized string in order of
\* appearance, whatever else is valid; no partial list is returned.
C6_AllOrNothing ==
  req.route \in BatchRoutes =>
    LET off == Offenders(req) IN
      off # {} =>
        /\ resp.status = 400
        /\ resp.kind = "Invalid codes"
        /\ resp.body = Join(InOrder(off))

\* two offenders from the two sources, next to a valid candidate
C6_Witness ==
  /\ req.route \in BatchRoutes
  /\ resp.kind = "Invalid codes"
  /\ resp.body = <<"B", "A", "D", ",", " ", "X">>
  /\ \E c \in NonBlank(req) : InGrammar(Normalize(c.raw))

\* C7 as claimed: a batch with no non-empty candidate fails with
\* "No codes provided" and no other error.
C7_AsClaimed ==
  (req.route \in BatchRoutes /\ NonBlank(req) = {}) =>
    resp.status = 400 /\ resp.kind = "No codes provided"

\* C7 amended: a batch with no non-empty candidate fails with 400: with
\* "No codes provided" when no repeated value was given (the blob absent, or all
\* its pieces empty or blank), and with "No valid codes after validation" when
\* a repeated value was given (every one of them blank).
C7_NoCandidates ==
  (req.route \in BatchRoutes /\ NonBlank(req) = {}) =>
    /\ resp.status = 400
    /\ resp.kind = IF ParamsOf(req) = <<>>
                   THEN "No codes provided"
                   ELSE "No valid codes after validation"

\* a blank repeated value and a blob of blank pieces
C7_Witness ==
  /\ req.route \in BatchRoutes
  /\ NonBlank(req) = {}
  /\ ParamsOf(req) # <<>>
  /\ Len(BlobOf(req)) > 1
  /\ resp.kind = "No valid codes after validation"

\* C8 as claimed: a grammar-valid code the renderer rejects is answered 400.
C8_RenderErrorIs400 ==
  (/\ req.route \in ImageRoutes
   /\ InGrammar(Normalize(req.data))
   /\ ~RendererAccepts(Normalize(req.data)))
    => resp.status = 400

RenderableCodes ==
  {Normalize(d) : d \in {x \in DataInputs \cup ServerInputs :
     CODE_PATTERN_match(Normalize(x)) /\ RendererAccepts(Normalize(x))}}

\* the names unique_path can give code a while it probes up to index n
NamesOf(a, n) ==
  {sanitize(a) \o PNG} \cup {sanitize(a) \o <<"-">> \o Dec(i) \o PNG : i \in 1..n}

\* the names each code can get in a run of the sequential server
NameSpace == [a \in RenderableCodes |-> NamesOf(a, MaxReq + 1)]

====
